---- MODULE Spec2Model ----
(***************************************************************************)
(* git-log-multi-all.py: commits of several Git repositories, grouped by   *)
(* calendar day.                                                           *)
(*                                                                         *)
(* Text is modelled as a sequence of chunks.  A chunk is one of the         *)
(* characters the code searches for ('#', '|', '"', '(', ')', '/'), one    *)
(* blank, or a run of other characters that neither begins nor ends with   *)
(* a blank.  find/strip/replace/split then act on chunks exactly as the    *)
(* Python string methods act on characters.  Date strings of the command   *)
(* line and date keys are sequences of single characters.                  *)
(*                                                                         *)
(* The script is Python 2 (dict.keys() returns a list, line 189-190).      *)
(***************************************************************************)
EXTENDS Integers, Sequences, FiniteSets, TLC

VARIABLES
    args,            \* argparse namespace: start, end, month (line 166)
    filename,        \* content of the list file args.filename, as lines
    today,           \* day of month of datetime.now(), dateutil's default
    disk,            \* path -> what git.Repo(path) / repo.git.log(...) give
    pc,              \* position in main()
    start,           \* main's start (line 171)
    end,             \* main's end (line 171)
    REPOS,           \* main's REPOS (line 179)
    n,               \* number of iterations of the loop of line 182 begun
    accessed,        \* paths handed to get_repo, in order
    returned,        \* what each repo_commits call read and returned
    commits_by_date, \* main's commits_by_date (line 176)
    dates,           \* main's dates (line 189)
    k,               \* number of iterations of the loop of line 192 done
    out              \* lines printed to standard output

vars == <<args, filename, today, disk, pc, start, end, REPOS, n, accessed,
          returned, commits_by_date, dates, k, out>>

----------------------------------------------------------------------------
(* Bounds of the model *)

MaxLines == 2      \* lines of the list file, in a whole run
MaxLog == 2        \* lines of one repository's log output, in a whole run
MaxListLines == 3  \* lines of the list file, where only the list is read
MaxLogLines == 3   \* lines of the log output, where only one repository is read

----------------------------------------------------------------------------
(* Python sequence and string methods *)

Reverse(s) == [i \in 1..Len(s) |-> s[Len(s) + 1 - i]]

\* str.find(ch): 0-based index of the first occurrence, -1 if none
find(s, ch) ==
    IF \E i \in 1..Len(s) : s[i] = ch
    THEN (CHOOSE i \in 1..Len(s) : s[i] = ch /\ \A j \in 1..(i-1) : s[j] # ch) - 1
    ELSE -1

\* str.replace(ch, ''): every occurrence removed
RECURSIVE replace(_, _)
replace(s, ch) ==
    IF s = <<>> THEN <<>>
    ELSE IF Head(s) = ch THEN replace(Tail(s), ch)
         ELSE <<Head(s)>> \o replace(Tail(s), ch)

\* str.strip(): leading and trailing whitespace removed
RECURSIVE lstrip(_)
lstrip(s) == IF s # <<>> /\ Head(s) = " " THEN lstrip(Tail(s)) ELSE s

strip(s) == Reverse(lstrip(Reverse(lstrip(s))))

\* str.split(sep): the fields between the separators
RECURSIVE split(_, _)
split(s, sep) ==
    LET i == find(s, sep) IN
    IF i = -1 THEN <<s>>
    ELSE <<SubSeq(s, 1, i)>> \o split(SubSeq(s, i + 2, Len(s)), sep)

\* os.path.basename(path): what follows the last '/'
RECURSIVE basename(_)
basename(p) ==
    LET i == find(p, "/") IN
    IF i = -1 THEN p ELSE basename(SubSeq(p, i + 2, Len(p)))

----------------------------------------------------------------------------
(* calendar, datetime *)

isleap(y) == y % 4 = 0 /\ (y % 100 # 0 \/ y % 400 = 0)

mdays == <<31, 28, 31, 30, 31, 30, 31, 31, 30, 31, 30, 31>>

\* calendar.monthrange(year, month)[1]
monthrange(y, m) == mdays[m] + (IF m = 2 /\ isleap(y) THEN 1 ELSE 0)

RECURSIVE days_before_month(_, _)
days_before_month(y, m) ==
    IF m = 1 THEN 0 ELSE days_before_month(y, m - 1) + monthrange(y, m - 1)

\* date.toordinal(): day 1 is 0001-01-01
toordinal(y, m, d) ==
    LET p == y - 1 IN
    p * 365 + (p \div 4) - (p \div 100) + (p \div 400) + days_before_month(y, m) + d

DAY_NAMES == <<"Monday", "Tuesday", "Wednesday", "Thursday", "Friday",
               "Saturday", "Sunday">>

\* strftime('%A')
weekday_name(y, m, d) == DAY_NAMES[((toordinal(y, m, d) + 6) % 7) + 1]

DIGITS == <<"0", "1", "2", "3", "4", "5", "6", "7", "8", "9">>

digit(x) == DIGITS[x + 1]

two(x) == <<digit(x \div 10), digit(x % 10)>>

four(x) == <<digit(x \div 1000), digit((x \div 100) % 10)>> \o two(x % 100)

\* strftime('%Y-%m-%d')
strftime_Ymd(t) == four(t.y) \o <<"-">> \o two(t.m) \o <<"-">> \o two(t.d)

\* strftime('%H:%M:%S')
strftime_HMS(t) == two(t.hh) \o <<":">> \o two(t.mi) \o <<":">> \o two(t.ss)

\* the instant of an aware datetime, in seconds since 1970-01-01 00:00 UTC
\* (day 719163): what comparing two of them compares
utc(t) ==
    ((toordinal(t.y, t.m, t.d) - 719163) * 1440 + t.hh * 60 + t.mi - t.off) * 60 + t.ss

----------------------------------------------------------------------------
(* dateutil.parser.parse *)

Moment(kind, y, m, d) == [kind |-> kind, y |-> y, m |-> m, d |-> d]

RECURSIVE number(_)
number(cs) ==
    IF cs = <<>> THEN 0
    ELSE number(SubSeq(cs, 1, Len(cs) - 1)) * 10 + find(DIGITS, cs[Len(cs)])

\* parser.parse of "YYYY-MM-DD" or "YYYY-MM" with datetime.now() on day tday of
\* its month: a field the string does not give is taken from the default, and a
\* default day past the end of the month falls back to the month's last day
parse(cs, tday) ==
    LET f == split(cs, "-")
        y == number(f[1])
        m == number(f[2])
    IN  IF Len(f) = 3 THEN Moment("datetime", y, m, number(f[3]))
        ELSE Moment("datetime", y, m,
                    IF tday > monthrange(y, m) THEN monthrange(y, m) ELSE tday)

\* the commit dates (%ci) of the modelled logs, and what parser.parse makes of them
ISO_DATES ==
    [s \in {"2016-02-28 10:00:00 +0000", "2016-02-28 09:00:00 -0700",
            "2016-02-29 08:00:00 +0000", "2016-02-28 23:30:00 +0100"} |->
        CASE s = "2016-02-28 10:00:00 +0000" ->
               [y |-> 2016, m |-> 2, d |-> 28, hh |-> 10, mi |-> 0, ss |-> 0, off |-> 0]
          [] s = "2016-02-28 09:00:00 -0700" ->
               [y |-> 2016, m |-> 2, d |-> 28, hh |-> 9, mi |-> 0, ss |-> 0, off |-> -420]
          [] s = "2016-02-29 08:00:00 +0000" ->
               [y |-> 2016, m |-> 2, d |-> 29, hh |-> 8, mi |-> 0, ss |-> 0, off |-> 0]
          [] s = "2016-02-28 23:30:00 +0100" ->
               [y |-> 2016, m |-> 2, d |-> 28, hh |-> 23, mi |-> 30, ss |-> 0, off |-> 60]]

parse_ts(rawdate) == ISO_DATES[rawdate[1]]

----------------------------------------------------------------------------
(* The functions of the script *)

\* Python truth value of an optional string argument
truthy(a) == a.given /\ a.s # <<>>

\* as range_given, were the test "if not (month or start or end)"
range_given_any(a) == truthy(a.month) \/ truthy(a.start) \/ truthy(a.end)

\* line 168: a month, or a start and an end
range_given(a) == truthy(a.month) \/ (truthy(a.start) /\ truthy(a.end))

\* as get_repos_list, were the test "if '#' not in line"
get_repos_list_any_hash(lines) == SelectSeq(lines, LAMBDA line : find(line, "#") = -1)

get_repos_list(lines) == SelectSeq(lines, LAMBDA line : ~(find(line, "#") = 0))

\* a value get_start_end leaves as it was given
untouched(a) == Moment(IF a.given THEN "str" ELSE "None", 0, 0, 0)

get_start_end(a, tday) ==
    IF truthy(a.start) /\ truthy(a.end)
    THEN <<parse(a.start.s, tday), parse(a.end.s, tday)>>
    ELSE IF truthy(a.month)
         THEN LET st == parse(a.month.s, tday) IN
              <<st, Moment("date", st.y, st.m, monthrange(st.y, st.m))>>
         ELSE <<untouched(a.start), untouched(a.end)>>

\* sorted(commits, key=lambda commit: commit['ts']): a new list, oldest first
RECURSIVE sorted_by_ts(_)
sorted_by_ts(cs) ==
    IF cs = <<>> THEN <<>>
    ELSE LET rest == sorted_by_ts(SubSeq(cs, 1, Len(cs) - 1))
             c == cs[Len(cs)]
             pos == Cardinality({i \in 1..Len(rest) : utc(rest[i].ts) <= utc(c.ts)})
         IN  SubSeq(rest, 1, pos) \o <<c>> \o SubSeq(rest, pos + 1, Len(rest))

\* as log_lines, were the label set afresh on every line
RECURSIVE log_lines_no_carry(_, _, _, _)
log_lines_no_carry(repo_name, lines, branch, commits) ==
    IF lines = <<>> THEN [ok |-> TRUE, commits |-> commits]
    ELSE LET f == split(replace(strip(Head(lines)), "\""), "|") IN
         IF Len(f) # 5 THEN [ok |-> FALSE, commits |-> <<>>]
         ELSE LET br == replace(replace(strip(f[4]), "("), ")")
                  c == [repo |-> repo_name, commit |-> f[1], date |-> f[2],
                        ts |-> parse_ts(f[2]), author |-> f[3], branch |-> br,
                        subject |-> f[5]]
              IN log_lines_no_carry(repo_name, Tail(lines), br, Append(commits, c))

\* the body of the loop of line 96, from the lines still to read
RECURSIVE log_lines(_, _, _, _)
log_lines(repo_name, lines, branch, commits) ==
    IF lines = <<>> THEN [ok |-> TRUE, commits |-> commits]
    ELSE LET f == split(replace(strip(Head(lines)), "\""), "|") IN
         IF Len(f) # 5 THEN [ok |-> FALSE, commits |-> <<>>]
         ELSE LET refname == f[4]
                  br == IF refname # <<>>
                        THEN replace(replace(strip(refname), "("), ")")
                        ELSE branch
                  c == [repo |-> repo_name, commit |-> f[1], date |-> f[2],
                        ts |-> parse_ts(f[2]), author |-> f[3], branch |-> br,
                        subject |-> f[5]]
              IN log_lines(repo_name, Tail(lines), br, Append(commits, c))

\* as repo_commits, were line 112 "commits = sorted(...)"
repo_commits_sorted(repo_name, raw) ==
    LET r == log_lines(repo_name, raw, <<>>, <<>>) IN
    [ok |-> r.ok, commits |-> Reverse(sorted_by_ts(r.commits))]

\* sorted(commits, key=...) builds a new list that line 112 drops
repo_commits(repo_name, raw) ==
    LET r == log_lines(repo_name, raw, <<>>, <<>>) IN
    [ok |-> r.ok, commits |-> Reverse(r.commits)]

\* as assign_to_date, were line 126-127 "dates[d] = [commit]"
RECURSIVE assign_to_date_overwriting(_, _)
assign_to_date_overwriting(commits, dts) ==
    IF commits = <<>> THEN dts
    ELSE LET c == Head(commits)
             d == strftime_Ymd(c.ts)
         IN assign_to_date_overwriting(Tail(commits),
                [x \in DOMAIN dts \cup {d} |-> IF x = d THEN <<c>> ELSE dts[x]])

RECURSIVE assign_to_date(_, _)
assign_to_date(commits, dts) ==
    IF commits = <<>> THEN dts
    ELSE LET c == Head(commits)
             d == strftime_Ymd(c.ts)
             old == IF d \in DOMAIN dts THEN dts[d] ELSE <<>>
         IN assign_to_date(Tail(commits),
                [x \in DOMAIN dts \cup {d} |->
                    IF x = d THEN Append(old, c) ELSE dts[x]])

Line(kind, text) == [kind |-> kind, text |-> text, c |-> <<>>]

\* TEMPLATE.format(...) of one commit; c keeps the commit the line was made from
commit_line(c) ==
    [kind |-> "commit",
     text |-> strftime_HMS(c.ts) \o <<" ">> \o c.commit \o <<" ", "(">> \o c.author
              \o <<")", " ">> \o c.repo \o <<" ", "[">> \o c.branch
              \o <<"]", " ">> \o c.subject,
     c |-> <<c>>]

\* as reversed_in_place, were line 133 "commits.sort(key=...)"
sorted_newest_first(commits) == Reverse(sorted_by_ts(commits))

\* the list as line 133-134 leave it: sorted() builds a list that is dropped
reversed_in_place(commits) == Reverse(commits)

print_commits(commits) ==
    LET cs == reversed_in_place(commits) IN [i \in 1..Len(cs) |-> commit_line(cs[i])]

print_day(dstr, commits, tday) ==
    LET day == parse(dstr, tday) IN
    <<Line("separator", <<"----">>),
      Line("date", strftime_Ymd(day) \o <<" ", weekday_name(day.y, day.m, day.d)>>)>>
    \o print_commits(commits)
    \o <<Line("blank", <<>>)>>

\* str() of a datetime or a date, as '%s' prints it
str(v) ==
    CASE v.kind = "datetime" -> strftime_Ymd(v) \o <<" ", "00:00:00">>
      [] v.kind = "date" -> strftime_Ymd(v)
      [] OTHER -> <<v.kind>>

\* ASCII codes of the characters of a date key
ord(ch) == IF ch = "-" THEN 45 ELSE 48 + find(DIGITS, ch)

\* a < b on Python strings
RECURSIVE str_lt(_, _)
str_lt(a, b) ==
    IF b = <<>> THEN FALSE
    ELSE IF a = <<>> THEN TRUE
    ELSE IF Head(a) = Head(b) THEN str_lt(Tail(a), Tail(b))
    ELSE ord(Head(a)) < ord(Head(b))

\* as sort, were line 190 missing: the keys in an order a dict may give them
RECURSIVE unsorted(_)
unsorted(keys) ==
    IF keys = {} THEN <<>>
    ELSE LET last == CHOOSE x \in keys : \A y \in keys : ~str_lt(y, x) IN
         unsorted(keys \ {last}) \o <<last>>

\* dates = commits_by_date.keys(); dates.sort()
RECURSIVE sort(_)
sort(keys) ==
    IF keys = {} THEN <<>>
    ELSE LET least == CHOOSE x \in keys : \A y \in keys : ~str_lt(y, x) IN
         <<least>> \o sort(keys \ {least})

----------------------------------------------------------------------------
(* main() *)

\* line 168-169: neither a month nor a start and an end
UsageError ==
    /\ pc = "main"
    /\ ~range_given(args)
    /\ pc' = "usage_error"
    /\ UNCHANGED <<args, filename, today, disk, start, end, REPOS, n, accessed,
                   returned, commits_by_date, dates, k, out>>

\* line 168-178
ResolveRange ==
    /\ pc = "main"
    /\ range_given(args)
    /\ LET se == get_start_end(args, today) IN
        /\ start' = se[1]
        /\ end' = se[2]
        /\ out' = out \o <<Line("text", <<"start: ">> \o str(se[1])),
                            Line("text", <<"  end: ">> \o str(se[2])),
                            Line("blank", <<>>),
                            Line("text", <<"Reading list...">>)>>
    /\ commits_by_date' = <<>>
    /\ pc' = "read"
    /\ UNCHANGED <<args, filename, today, disk, REPOS, n, accessed, returned, dates, k>>

\* line 179-181
ReadList ==
    /\ pc = "read"
    /\ REPOS' = get_repos_list(filename)
    /\ out' = Append(out, Line("text", <<"Gathering data...">>))
    /\ pc' = "gather"
    /\ UNCHANGED <<args, filename, today, disk, start, end, n, accessed, returned,
                   commits_by_date, dates, k>>

\* as GatherRepo, were the body of the loop in a try that passes on the error
GatherRepo_skipping ==
    /\ pc = "gather"
    /\ n < Len(REPOS)
    /\ LET path == REPOS[n + 1]
           repo == disk[path]
           got == repo_commits(basename(path), repo.raw)
       IN  /\ n' = n + 1
           /\ out' = Append(out, Line("text", path))
           /\ accessed' = Append(accessed, path)
           /\ IF repo.kind = "log" /\ got.ok
              THEN /\ returned' = Append(returned, [raw |-> repo.raw, commits |-> got.commits])
                   /\ commits_by_date' = assign_to_date(got.commits, commits_by_date)
              ELSE /\ returned' = Append(returned, [raw |-> <<>>, commits |-> <<>>])
                   /\ UNCHANGED commits_by_date
    /\ UNCHANGED <<args, filename, today, disk, pc, start, end, REPOS, dates, k>>

\* line 182-186, one iteration: GitPython raises for a path that is no repository
\* and for a git command that fails, line 97 raises for a line of other than
\* five fields, and nothing in main catches
GatherRepo ==
    /\ pc = "gather"
    /\ n < Len(REPOS)
    /\ LET path == REPOS[n + 1]
           repo == disk[path]
           got == repo_commits(basename(path), repo.raw)
       IN  /\ n' = n + 1
           /\ out' = Append(out, Line("text", path))
           /\ accessed' = Append(accessed, path)
           /\ IF repo.kind = "log" /\ got.ok
              THEN /\ returned' = Append(returned, [raw |-> repo.raw, commits |-> got.commits])
                   /\ commits_by_date' = assign_to_date(got.commits, commits_by_date)
                   /\ pc' = "gather"
              ELSE /\ pc' = "error"
                   /\ UNCHANGED <<returned, commits_by_date>>
    /\ UNCHANGED <<args, filename, today, disk, start, end, REPOS, dates, k>>

\* line 187-190
SortDates ==
    /\ pc = "gather"
    /\ n = Len(REPOS)
    /\ out' = Append(out, Line("blank", <<>>))
    /\ dates' = sort(DOMAIN commits_by_date)
    /\ pc' = "print"
    /\ UNCHANGED <<args, filename, today, disk, start, end, REPOS, n, accessed,
                   returned, commits_by_date, k>>

\* line 192-194, one iteration; print_commits reverses the list of the bucket itself
PrintDay ==
    /\ pc = "print"
    /\ k < Len(dates)
    /\ LET d == dates[k + 1] IN
        /\ out' = out \o print_day(d, commits_by_date[d], today)
        /\ commits_by_date' =
               [commits_by_date EXCEPT ![d] = reversed_in_place(commits_by_date[d])]
    /\ k' = k + 1
    /\ UNCHANGED <<args, filename, today, disk, pc, start, end, REPOS, n, accessed,
                   returned, dates>>

\* the loop of line 192 is over and main returns
Return ==
    /\ pc = "print"
    /\ k = Len(dates)
    /\ pc' = "done"
    /\ UNCHANGED <<args, filename, today, disk, start, end, REPOS, n, accessed,
                   returned, commits_by_date, dates, k, out>>

Next ==
    \/ UsageError
    \/ ResolveRange
    \/ ReadList
    \/ GatherRepo
    \/ SortDates
    \/ PrintDay
    \/ Return

----------------------------------------------------------------------------
(* Inputs: the command line, the clock, the list file, the repositories *)

SeqsUpTo(S, len) == UNION {[1..m -> S] : m \in 0..len}

Absent == [given |-> FALSE, s |-> <<>>]

Given(s) == [given |-> TRUE, s |-> s]

Unset == Moment("None", 0, 0, 0)

MonthString(y, m) == four(y) \o <<"-">> \o two(m)

DateString(y, m, d) == MonthString(y, m) \o <<"-">> \o two(d)

Values(s) == {Absent, Given(<<>>), Given(s)}

AllArgs ==
    [start : Values(DateString(2016, 2, 1)), end : Values(DateString(2016, 2, 29)),
     month : Values(MonthString(2016, 2))]

NoArgs == [start |-> Absent, end |-> Absent, month |-> Absent]

OnlyMonth(y, m) == [NoArgs EXCEPT !.month = Given(MonthString(y, m))]

RunArgs == {NoArgs, OnlyMonth(2016, 2)}

Years == {1900, 2000, 2016, 2017}

MonthArgs == {OnlyMonth(y, m) : y \in Years, m \in 1..12}

PathA == <<"/", "srv", "/", "repo-a">>

PathC == <<"/", "srv", "/", "repo-c">>

CommentB == <<"#", " ", "/", "srv", "/", "repo-b">>

RunLines == {PathA, CommentB, PathC}

ListLines == RunLines \cup {<<>>, <<" ", "#", "x">>, <<"/", "r", "#", "1">>}

\* one line of git log --pretty=format:"%h|%ci|%cn|%d|%s"; %d is empty or
\* " (refs)", and GitPython hands the quotes to git, which prints them
LogLine(h, ci, cn, d, subject) ==
    <<"\"", h, "|", ci, "|", cn, "|">> \o d \o <<"|", subject, "\"">>

NoRefs == <<>>

Refs(names) == <<" ", "(">> \o names \o <<")">>

LineX == LogLine("a1f", "2016-02-28 10:00:00 +0000", "Jane Doe",
                 Refs(<<"HEAD -> main">>), "Fix bug")

LineY == LogLine("b2e", "2016-02-28 09:00:00 -0700", "Jane Doe", NoRefs, "Add test")

LineZ == LogLine("c3d", "2016-02-29 08:00:00 +0000", "Sam Roe", Refs(<<"dev">>), "Bump")

\* a subject-less line: four fields
LineBad == <<"\"", "d4c", "|", "2016-02-28 10:00:00 +0000", "|", "Jane Doe", "|", "\"">>

RunLogLines == {LineX, LineY, LineZ}

RichLogLines ==
    {LogLine(hc[1], hc[2], "Jane Doe", d, "Work") :
        hc \in {<<"e5b", "2016-02-28 23:30:00 +0100">>,
                <<"f6a", "2016-02-29 08:00:00 +0000">>},
        d \in {NoRefs, Refs(<<"HEAD -> main">>), Refs(<<"dev">>),
               Refs(<<"tag: v", "(", "1", ")">>)}}

NoRepo == [kind |-> "norepo", raw |-> <<>>]

GitFails == [kind |-> "gitfail", raw |-> <<>>]

Log(raw) == [kind |-> "log", raw |-> raw]

RunRepos ==
    {NoRepo, GitFails, Log(<<LineBad>>), Log(<<LineX, LineBad>>)}
    \cup {Log(raw) : raw \in SeqsUpTo(RunLogLines, MaxLog)}

\* the paths a list file names
PathsOf(f) == {f[i] : i \in 1..Len(f)} \ {CommentB}

Started(a, t, f, dk) ==
    /\ args = a
    /\ today = t
    /\ filename = f
    /\ disk = dk
    /\ pc = "main"
    /\ start = Unset
    /\ end = Unset
    /\ REPOS = <<>>
    /\ n = 0
    /\ accessed = <<>>
    /\ returned = <<>>
    /\ commits_by_date = <<>>
    /\ dates = <<>>
    /\ k = 0
    /\ out = <<>>

\* a whole run
Init ==
    \E a \in RunArgs, t \in {17}, f \in SeqsUpTo(RunLines, MaxLines) :
        \E dk \in [PathsOf(f) -> RunRepos] : Started(a, t, f, dk)

Spec == Init /\ [][Next]_vars

\* a whole run over a list that names no repository twice
InitRepos ==
    \E a \in RunArgs, t \in {17}, f \in SeqsUpTo(RunLines, MaxLines) :
        /\ \A i, j \in 1..Len(f) : (f[i] = f[j] /\ f[i] # CommentB) => i = j
        /\ \E dk \in [PathsOf(f) -> RunRepos] : Started(a, t, f, dk)

SpecRepos == InitRepos /\ [][Next]_vars

\* a whole run, over every form of the command line
InitArgs ==
    \E a \in AllArgs, t \in {1, 17, 31}, f \in {<<PathA>>, <<CommentB, PathC>>} :
        \E dk \in [PathsOf(f) -> {NoRepo, Log(<<LineX>>)}] : Started(a, t, f, dk)

SpecArgs == InitArgs /\ [][Next]_vars

\* get_start_end on every month
InitMonth ==
    \E a \in MonthArgs, t \in 1..31 :
        Started(a, t, <<>>, <<>>)

SpecMonth == InitMonth /\ [][ResolveRange]_vars

\* get_repos_list on every list file
InitList ==
    \E f \in SeqsUpTo(ListLines, MaxListLines) :
        Started(OnlyMonth(2016, 2), 17, f, [p \in PathsOf(f) |-> NoRepo])

NextList == ResolveRange \/ ReadList

SpecList == InitList /\ [][NextList]_vars

\* repo_commits on every log, after another repository
InitLog ==
    \E before \in {<<>>, <<LineX>>, <<LineZ, LineY>>},
       raw \in SeqsUpTo(RichLogLines, MaxLogLines) :
        Started(OnlyMonth(2016, 2), 17, <<PathC, PathA>>,
                [p \in {PathA, PathC} |-> IF p = PathC THEN Log(before) ELSE Log(raw)])

NextLog == ResolveRange \/ ReadList \/ GatherRepo

SpecLog == InitLog /\ [][NextLog]_vars

----------------------------------------------------------------------------
(* What the properties speak of *)

RECURSIVE Concat(_)
Concat(ss) == IF ss = <<>> THEN <<>> ELSE Head(ss) \o Concat(Tail(ss))

Range(s) == {s[i] : i \in 1..Len(s)}

\* every record the repo_commits calls returned, in the order main received them
Gathered == Concat([i \in 1..Len(returned) |-> returned[i].commits])

\* the date key reads as the calendar date of the timestamp
KeyIsDateOf(key, ts) ==
    /\ Len(key) = 10
    /\ key[5] = "-" /\ key[8] = "-"
    /\ number(SubSeq(key, 1, 4)) = ts.y
    /\ number(SubSeq(key, 6, 7)) = ts.m
    /\ number(SubSeq(key, 9, 10)) = ts.d

KeyNumber(key) ==
    (number(SubSeq(key, 1, 4)) * 100 + number(SubSeq(key, 6, 7))) * 100
        + number(SubSeq(key, 9, 10))

\* the places of the bucket map: a key and an index of its list
Slots ==
    UNION {{<<d, j>> : j \in 1..Len(commits_by_date[d])} : d \in DOMAIN commits_by_date}

\* the day blocks of a printout: the date of each header and the commits under it
RECURSIVE DayBlocks(_)
DayBlocks(lines) ==
    IF lines = <<>> THEN <<>>
    ELSE LET before == DayBlocks(SubSeq(lines, 1, Len(lines) - 1))
             l == lines[Len(lines)]
         IN  IF l.kind = "date"
             THEN Append(before, [key |-> SubSeq(l.text, 1, 10), commits |-> <<>>])
             ELSE IF l.kind = "commit"
             THEN [before EXCEPT ![Len(before)].commits = Append(@, l.c[1])]
             ELSE before

Blocks == DayBlocks(out)

DayLines == {i \in 1..Len(out) : out[i].kind \in {"separator", "date", "commit"}}

NewestFirst(tss) == \A j \in 1..(Len(tss) - 1) : utc(tss[j]) >= utc(tss[j + 1])

\* the i-th '|' of a log line, and the field before it
PipeAt(line, i) ==
    CHOOSE x \in 1..Len(line) :
        line[x] = "|" /\ Cardinality({w \in 1..x : line[w] = "|"}) = i

Pipes(line) == Cardinality({x \in 1..Len(line) : line[x] = "|"})

\* the %d field of a five-field line
Decoration(line) == SubSeq(line, PipeAt(line, 3) + 1, PipeAt(line, 4) - 1)

\* the %ci field of a line of at least two fields
CommitDate(line) == line[PipeAt(line, 1) + 1]

Decorations ==
    {NoRefs, Refs(<<"HEAD -> main">>), Refs(<<"dev">>), Refs(<<"tag: v", "(", "1", ")">>)}

\* a decoration without its parentheses and the blank before them
Label(d) == SelectSeq(d, LAMBDA ch : ch \notin {" ", "(", ")"})

\* the label of the nearest decorated line at or before line j
LabelAt(raw, j) ==
    LET decorated == {i \in 1..j : Decoration(raw[i]) # <<>>} IN
    IF decorated = {} THEN <<>>
    ELSE Label(Decoration(raw[CHOOSE i \in decorated : \A x \in decorated : x <= i]))

\* a record holds the fields of the line
MadeFrom(c, line) ==
    \E d \in Decorations :
        line = LogLine(c.commit[1], c.date[1], c.author[1], d, c.subject[1])

\* processing this repository raises
Fails(repo) == repo.kind # "log" \/ \E i \in 1..Len(repo.raw) : Pipes(repo.raw[i]) # 4

----------------------------------------------------------------------------
(* The command line and the date range *)

\* an option counts as supplied when it carries a value: argparse stores "" for
\* an option given with nothing after it, and None for one not given
Supplied(a) == a.given /\ a.s # <<>>

Resolved(v) == v.kind \in {"datetime", "date"}

\* C4: the run ends in a usage error exactly when no month is supplied and start
\* and end are not both supplied; it does so before the list file is read or any
\* repository is accessed, and nothing follows; in every other case start and end
\* are both resolved from line 171 on, so before the first repository is queried.
C4_UsageErrorExactlyWithoutRange ==
    /\ pc # "main" =>
          (pc = "usage_error" <=>
             (~Supplied(args.month) /\ ~(Supplied(args.start) /\ Supplied(args.end))))
    /\ pc = "usage_error" =>
          (out = <<>> /\ REPOS = <<>> /\ accessed = <<>> /\ ~ENABLED Next)
    /\ pc \notin {"main", "usage_error"} => (Resolved(start) /\ Resolved(end))
    /\ accessed # <<>> => (Resolved(start) /\ Resolved(end))

\* a run with a start and an end and no month queried a repository, and a run
\* with a start only has ended in the usage error
C4_Witness ==
    /\ accessed # <<>>
    /\ Supplied(args.start) /\ Supplied(args.end) /\ ~args.month.given
    /\ start = Moment("datetime", 2016, 2, 1)
    /\ end = Moment("datetime", 2016, 2, 29)

\* the last day of a month, from the calendar's rule
LastDay(y, m) ==
    IF m \in {4, 6, 9, 11} THEN 30
    ELSE IF m # 2 THEN 31
    ELSE IF y % 400 = 0 \/ (y % 4 = 0 /\ y % 100 # 0) THEN 29 ELSE 28

MonthOf(a) == number(SubSeq(a.month.s, 6, 7))

YearOf(a) == number(SubSeq(a.month.s, 1, 4))

\* C6: with a month and no start and end, the range is that calendar month:
\* start is its day 1 and end is its last day.
C6_RangeIsTheCalendarMonth ==
    (pc = "read" /\ Supplied(args.month) /\ ~Supplied(args.start) /\ ~Supplied(args.end)) =>
        /\ start.y = YearOf(args) /\ start.m = MonthOf(args) /\ start.d = 1
        /\ end.y = YearOf(args) /\ end.m = MonthOf(args)
        /\ end.d = LastDay(YearOf(args), MonthOf(args))

----------------------------------------------------------------------------
(* The list of repositories *)

NotComment(line) == line = <<>> \/ line[1] # "#"

Kept == {i \in 1..Len(filename) : NotComment(filename[i])}

\* C7: get_repos_list returns the lines that do not begin with '#', each as often
\* as the file holds it and in the file's order, blank lines among them: the
\* j-th path returned is the j-th such line.
C7_NonCommentLinesInOrder ==
    pc = "gather" =>
        /\ Len(REPOS) = Cardinality(Kept)
        /\ \A j \in 1..Len(REPOS) :
              \E i \in Kept : Cardinality({x \in Kept : x <= i}) = j /\ REPOS[j] = filename[i]

\* a file of a comment, a blank line and a line with a '#' further in
C7_Witness ==
    /\ pc = "gather"
    /\ \E i \in 1..Len(filename) : ~NotComment(filename[i])
    /\ \E j \in 1..Len(REPOS) : REPOS[j] = <<>>
    /\ \E j \in 1..Len(REPOS) : find(REPOS[j], "#") > 0

----------------------------------------------------------------------------
(* One repository's log *)

\* C9: repo_commits returns one record for each line of the log, in the reverse
\* of the order of the lines, whatever the timestamps: the j-th record returned
\* holds the fields of the j-th line from the end.
C9_ReverseOfNativeOrder ==
    \A i \in 1..Len(returned) :
        LET raw == returned[i].raw
            cs == returned[i].commits
        IN  /\ Len(cs) = Len(raw)
            /\ \A j \in 1..Len(cs) : MadeFrom(cs[j], raw[Len(raw) + 1 - j])

\* a log whose lines are not in the order of their timestamps, neither way
C9_Witness ==
    /\ Len(returned) = 2
    /\ LET raw == returned[2].raw IN
        /\ Len(raw) = 3
        /\ utc(ISO_DATES[CommitDate(raw[1])]) < utc(ISO_DATES[CommitDate(raw[2])])
        /\ utc(ISO_DATES[CommitDate(raw[2])]) > utc(ISO_DATES[CommitDate(raw[3])])
        /\ returned[2].commits[1].date = <<CommitDate(raw[3])>>

----------------------------------------------------------------------------
(* The buckets *)

\* C2: the bucket map is a partition of the records gathered: each record is in
\* the buckets as often as the repo_commits calls returned it, under the key that
\* reads as the date of its timestamp, and the buckets hold as many records as
\* were returned.
C2_BucketsPartitionTheInput ==
    /\ \A sl \in Slots : KeyIsDateOf(sl[1], commits_by_date[sl[1]][sl[2]].ts)
    /\ \A r \in Range(Gathered) \cup {commits_by_date[sl[1]][sl[2]] : sl \in Slots} :
          Cardinality({sl \in Slots : commits_by_date[sl[1]][sl[2]] = r})
              = Cardinality({j \in 1..Len(Gathered) : Gathered[j] = r})
    /\ Cardinality(Slots) = Len(Gathered)

\* two repositories, both with commits of one day, one of them with a commit of
\* another day as well
C2_Witness ==
    /\ pc = "done"
    /\ Len(returned) = 2
    /\ Cardinality(DOMAIN commits_by_date) = 2
    /\ \E d \in DOMAIN commits_by_date :
          \E i, j \in 1..Len(commits_by_date[d]) :
              commits_by_date[d][i].repo # commits_by_date[d][j].repo

----------------------------------------------------------------------------
(* Errors *)

\* C3: when processing a repository fails the run is over in the error state:
\* that repository is the last one accessed, the ones accessed are the first of
\* the list, nothing follows, and no line of a day block is printed.
C3_ErrorsAreFatal ==
    /\ \A i \in 1..Len(accessed) :
          Fails(disk[accessed[i]]) =>
              /\ pc = "error"
              /\ i = Len(accessed)
              /\ accessed = SubSeq(REPOS, 1, i)
              /\ DayLines = {}
              /\ ~ENABLED Next
    /\ pc = "error" => (accessed # <<>> /\ Fails(disk[accessed[Len(accessed)]]))

\* the second repository's log has a line of four fields, after the first gave
\* commits
C3_Witness ==
    /\ pc = "error"
    /\ Len(accessed) = 2
    /\ commits_by_date # <<>>
    /\ disk[accessed[2]].kind = "log"

----------------------------------------------------------------------------
(* The printout *)

\* C1: when every repository's log is newest first, the commits of each day
\* block are printed newest first.
C1_DayBlocksNewestFirst ==
    (\A i \in 1..Len(returned) :
        NewestFirst([j \in 1..Len(returned[i].raw) |->
                        ISO_DATES[CommitDate(returned[i].raw[j])]]))
    => \A b \in 1..Len(Blocks) :
           NewestFirst([j \in 1..Len(Blocks[b].commits) |-> Blocks[b].commits[j].ts])

Dated(cs, key) == SelectSeq(cs, LAMBDA c : KeyIsDateOf(key, c.ts))

\* the repository and hash of the lines of a log whose commit date is on the day
NativeOfDay(path, raw, key) ==
    LET on == SelectSeq(raw, LAMBDA l : KeyIsDateOf(key, ISO_DATES[CommitDate(l)])) IN
    [j \in 1..Len(on) |-> <<path[Len(path)], on[j][2]>>]

\* C10: a day block shows the bucket in the reverse of the order of appending,
\* which is: the repositories from the last of the list to the first, and the
\* commits of each in the order of its log.
C10_ReverseOfAppendOrder ==
    \A b \in 1..Len(Blocks) :
        LET key == Blocks[b].key
            shown == Blocks[b].commits
        IN  /\ shown = Reverse(Concat([i \in 1..Len(returned) |->
                                         Dated(returned[i].commits, key)]))
            /\ [j \in 1..Len(shown) |-> <<shown[j].repo[1], shown[j].commit[1]>>]
                 = Concat([i \in 1..Len(returned) |->
                             LET r == Len(returned) + 1 - i IN
                             NativeOfDay(REPOS[r], returned[r].raw, key)])

\* a block of three commits: two of one repository, whose log is oldest first,
\* and one of the other
C10_Witness ==
    /\ pc = "done"
    /\ \E b \in 1..Len(Blocks) :
          LET shown == Blocks[b].commits IN
          /\ Len(shown) = 3
          /\ shown[1].repo # shown[3].repo
          /\ shown[2].repo = shown[3].repo
          /\ utc(shown[2].ts) < utc(shown[3].ts)

AllGathered == Len(returned) = Len(REPOS) /\ n = Len(REPOS) /\ pc \in {"print", "done"}

\* C8: day blocks are printed only once every repository of the list is
\* processed, in strictly ascending order of their dates, each for a date of a
\* gathered commit, and at the end there is one for every such date.
C8_DayBlocksInDateOrder ==
    /\ DayLines # {} => AllGathered
    /\ \A b \in 1..(Len(Blocks) - 1) : KeyNumber(Blocks[b].key) < KeyNumber(Blocks[b + 1].key)
    /\ \A b \in 1..Len(Blocks) :
          \E j \in 1..Len(Gathered) : KeyIsDateOf(Blocks[b].key, Gathered[j].ts)
    /\ pc = "done" =>
          \A j \in 1..Len(Gathered) :
              \E b \in 1..Len(Blocks) : KeyIsDateOf(Blocks[b].key, Gathered[j].ts)

\* the first repository has a commit of the later day only, the second of the
\* earlier day only
C8_Witness ==
    /\ pc = "done"
    /\ Len(Blocks) = 2
    /\ Len(returned) = 2
    /\ \A c \in Range(returned[1].commits) : KeyIsDateOf(Blocks[2].key, c.ts)
    /\ \A c \in Range(returned[2].commits) : KeyIsDateOf(Blocks[1].key, c.ts)

====
